---- MODULE Spec2Model ----
(***************************************************************************)
(* Model of dockerizalo's app controller (src/controllers/apps.ts) and of  *)
(* the compose generator (src/helpers/docker.ts).                          *)
(*                                                                         *)
(* Every request handler is an async function: it runs atomically from one *)
(* await to the next, so each action below is the code between two awaits  *)
(* (the awaited call's answer and the synchronous code that follows it).   *)
(* Strings that the code takes apart ("dockerizalo-<id>") are sequences of *)
(* tokens, so that template literals are concatenation and                 *)
(* String.replace is computed, not assumed.                                *)
(***************************************************************************)
EXTENDS Naturals, Integers, Sequences, FiniteSets, TLC

VARIABLES
    apps,       \* store: ids of the App records
    names,      \* store: app id -> the record's name ("" without a record)
    builds,     \* store: Build records [id, appId]
    fragments,  \* store: per app, its ports/volumes/variables/networks/labels
    status,     \* runtime: container name -> running|restarting|exited|absent
    images,     \* runtime: image tags present
    dir,        \* filesystem: app id -> does the app directory exist
    compose,    \* filesystem: app id -> <<>> (no file) or <<document>>
    req,        \* start/stop requests in flight: slot -> handler locals
    lg,         \* the listenAppLogs connection: handler position and history
    sink,       \* listenApp connections: slot -> handler position and history
    subs,       \* realtime registry: app id -> set of subscribed slots
    pending,    \* sendAppEvent calls whose snapshot is not pushed yet
    published   \* number of sendAppEvent calls so far

vars == <<apps, names, builds, fragments, status, images, dir, compose, req, lg, sink, subs, pending,
          published>>

storeVars == <<apps, names, builds, fragments>>
runtimeVars == <<status, images>>
fsVars == <<dir, compose>>
hubVars == <<sink, subs, pending, published>>

----------------------------------------------------------------------------
(* Bounds *)

NumReq == 2         \* concurrent start/stop requests
MaxChunks == 2      \* log chunks the runtime emits on one connection
MaxAttempts == 3    \* log adapter calls on one connection
NumSinks == 2       \* status-stream connections
MaxPublish == 2     \* sendAppEvent calls

Req == 1..NumReq
Sinks == 1..NumSinks

----------------------------------------------------------------------------
(* Strings *)

Prefix == "dockerizalo-"

\* `dockerizalo-${x}`
Tpl(x) == <<Prefix>> \o x

\* s.replace("dockerizalo-", ""): the first occurrence is removed, if any
RECURSIVE Replace(_)
Replace(s) ==
    IF s = <<>> THEN <<>>
    ELSE IF Head(s) = Prefix THEN Tail(s)
    ELSE <<Head(s)>> \o Replace(Tail(s))

AppIds == {<<"a1">>, <<"a2">>}
BuildIds == {<<"b1">>, <<"b2">>}
ContainerNames == {Tpl(a) : a \in AppIds}
Statuses == {"running", "restarting", "exited", "absent"}

----------------------------------------------------------------------------
(* Compose Config Generator: src/helpers/docker.ts *)

Empty == <<>>   \* {} : the object with no keys

\* Faulty variant of ReduceKeyValue: the first occurrence of a key wins.
RECURSIVE ReduceKeyValueFirstWins(_)
ReduceKeyValueFirstWins(list) ==
    IF list = <<>> THEN Empty
    ELSE LET n == Len(list)
         IN  ReduceKeyValueFirstWins(SubSeq(list, 1, n - 1))
                 @@ (list[n].key :> list[n].value)

\* list.reduce((acc, x) => ({...acc, [x.key]: x.value}), {})
RECURSIVE ReduceKeyValue(_)
ReduceKeyValue(list) ==
    IF list = <<>> THEN Empty
    ELSE LET n == Len(list)
         IN  (list[n].key :> list[n].value) @@ ReduceKeyValue(SubSeq(list, 1, n - 1))

\* Object.fromEntries(networks.map(n => [n.name, {name, external}]))
RECURSIVE NetworksFromEntries(_)
NetworksFromEntries(list) ==
    IF list = <<>> THEN Empty
    ELSE LET n == Len(list)
         IN  (list[n].name :> [name |-> list[n].name, external |-> list[n].external])
                 @@ NetworksFromEntries(SubSeq(list, 1, n - 1))

\* Faulty variant of createComposeConfiguration: the ports section is emitted
\* also for an empty list.
createComposeConfigurationAlwaysPorts(build, ports, volumes, variables, networks, labels) ==
    LET app ==
            [image |-> Tpl(build.id),
             container_name |-> Tpl(build.appId),
             restart |-> "unless-stopped",
             ports |-> [i \in 1..Len(ports) |->
                           <<ports[i].external, ":", ports[i].internal>>]]
            @@ (IF Len(variables) # 0
                THEN [environment |-> ReduceKeyValue(variables)]
                ELSE Empty)
            @@ (IF Len(labels) # 0
                THEN [labels |-> ReduceKeyValue(labels)]
                ELSE Empty)
            @@ (IF Len(volumes) # 0
                THEN [volumes |-> [i \in 1..Len(volumes) |->
                                      <<volumes[i].host, ":", volumes[i].internal>>]]
                ELSE Empty)
            @@ (IF Len(networks) # 0
                THEN [networks |-> [i \in 1..Len(networks) |-> networks[i].name]]
                ELSE Empty)
    IN  [services |-> [app |-> app]]
        @@ (IF Len(networks) # 0
            THEN [networks |-> NetworksFromEntries(networks)]
            ELSE Empty)

\* The object handed to dump(); the file on disk is modelled by this document.
createComposeConfiguration(build, ports, volumes, variables, networks, labels) ==
    LET app ==
            [image |-> Tpl(build.id),
             container_name |-> Tpl(build.appId),
             restart |-> "unless-stopped"]
            @@ (IF Len(ports) # 0
                THEN [ports |-> [i \in 1..Len(ports) |->
                                    <<ports[i].external, ":", ports[i].internal>>]]
                ELSE Empty)
            @@ (IF Len(variables) # 0
                THEN [environment |-> ReduceKeyValue(variables)]
                ELSE Empty)
            @@ (IF Len(labels) # 0
                THEN [labels |-> ReduceKeyValue(labels)]
                ELSE Empty)
            @@ (IF Len(volumes) # 0
                THEN [volumes |-> [i \in 1..Len(volumes) |->
                                      <<volumes[i].host, ":", volumes[i].internal>>]]
                ELSE Empty)
            @@ (IF Len(networks) # 0
                THEN [networks |-> [i \in 1..Len(networks) |-> networks[i].name]]
                ELSE Empty)
    IN  [services |-> [app |-> app]]
        @@ (IF Len(networks) # 0
            THEN [networks |-> NetworksFromEntries(networks)]
            ELSE Empty)

----------------------------------------------------------------------------
(* Collaborators the controller imports (services/docker, services/fs,     *)
(* services/realtime, controllers/builds), as section 4.2 and 6 of the     *)
(* specification describe them.                                            *)

\* getContainerStatus(name)
getContainerStatus(name) == status[name]

\* getAppDirectory(app): the path, or nothing when the directory is absent
getAppDirectory(a) == dir[a]

\* getComposeConfiguration(directory): <<>> when there is no file
getComposeConfiguration(a) == IF dir[a] THEN compose[a] ELSE <<>>

\* getComposeImage(compose): the service's image, or nothing (falsy)
getComposeImage(doc) ==
    IF "image" \in DOMAIN doc.services.app THEN doc.services.app.image ELSE <<>>

\* isImageAvailable(image)
isImageAvailable(image) == image \in images

\* Faulty variant of findBuild: the where clause is lost, the first build of
\* the store is found.
findBuildFirst(id) ==
    IF builds # {} THEN <<CHOOSE b \in builds : TRUE>> ELSE <<>>

\* prisma.build.findUnique({where: {id}}): <<>> or <<record>>
findBuild(id) ==
    IF \E b \in builds : b.id = id
    THEN <<CHOOSE b \in builds : b.id = id>>
    ELSE <<>>

\* sendAppEvent(appId): the hub fetches the snapshot and pushes it later
sendAppEvent(a) ==
    /\ pending' = Append(pending, a)
    /\ published' = published + 1

RuntimeAdapterOps ==
    {"containerStatus", "allContainerStatuses", "imageAvailable", "startStack",
     "stopStack", "readComposeConfig", "imageFromConfig", "writeComposeConfig",
     "streamLogs"}

PresenceChecks == {"readComposeConfig", "imageFromConfig", "imageAvailable"}

----------------------------------------------------------------------------
(* Start and Stop requests: startApp and stopApp *)

IdleReq ==
    [kind |-> "none", app |-> <<>>, pc |-> "idle",
     status |-> "none",     \* const status
     image |-> <<>>,        \* const image
     build |-> <<>>,        \* const build: <<>> or <<record>>
     available |-> "none",  \* const available: "yes" or "no" once it is set
     frags |-> <<>>,        \* const [ports, volumes, variables, networks, labels]
     res |-> "none",        \* the response: a status code, "createBuild" when
                            \* createBuild took the response over, "thrown"
                            \* when the handler's promise rejects
     err |-> "none",        \* the error a collaborator call rejected with
     force |-> FALSE,       \* deleteApp: req.query.force === "true"
     name |-> "",           \* createApp, updateApp: data.name
     calls |-> <<>>,        \* collaborator operations called so far, in order
     nBuild |-> 0,          \* createBuild invocations
     nEvent |-> 0]          \* sendAppEvent invocations

Call(q, op) == [q EXCEPT !.calls = Append(@, op)]
Respond(q, code) == [q EXCEPT !.pc = "done", !.res = code]

\* await createBuild(req, res, next); return
createBuild(q) == [q EXCEPT !.pc = "done", !.res = "createBuild", !.nBuild = @ + 1]

\* A request arrives: POST /:appId/start or POST /:appId/stop
\* (slots are numbered in order of arrival)
Begin(r, kind, a) ==
    /\ req[r].pc = "idle"
    /\ \A r2 \in Req : r2 < r => req[r2].pc # "idle"
    /\ req' = [req EXCEPT ![r] = [IdleReq EXCEPT !.kind = kind, !.app = a, !.pc = "findApp"]]
    /\ UNCHANGED <<storeVars, runtimeVars, fsVars, lg, hubVars>>

\* prisma.app.findUnique; if (!app) 404
FindApp(r) ==
    /\ req[r].pc = "findApp"
    /\ req' = [req EXCEPT ![r] =
                  IF req[r].app \in apps
                  THEN [Call(@, "app.findUnique") EXCEPT !.pc = "getStatus"]
                  ELSE Respond(Call(@, "app.findUnique"), "404")]
    /\ UNCHANGED <<storeVars, runtimeVars, fsVars, lg, hubVars>>

\* Faulty variant of StartGetStatus: the conflict check is missing
StartGetStatusNoConflict(r) ==
    /\ req[r].pc = "getStatus" /\ req[r].kind = "start"
    /\ LET st == getContainerStatus(Tpl(req[r].app))
           q  == [Call(req[r], "containerStatus") EXCEPT !.status = st]
       IN  req' = [req EXCEPT ![r] = [q EXCEPT !.pc = "getDir"]]
    /\ UNCHANGED <<storeVars, runtimeVars, fsVars, lg, hubVars>>

\* startApp: getContainerStatus; if (status === "running") 400
StartGetStatus(r) ==
    /\ req[r].pc = "getStatus" /\ req[r].kind = "start"
    /\ LET st == getContainerStatus(Tpl(req[r].app))
           q  == [Call(req[r], "containerStatus") EXCEPT !.status = st]
       IN  req' = [req EXCEPT ![r] =
                      IF st = "running" THEN Respond(q, "400")
                      ELSE [q EXCEPT !.pc = "getDir"]]
    /\ UNCHANGED <<storeVars, runtimeVars, fsVars, lg, hubVars>>

\* Faulty variant of StartGetDir: a missing directory is not noticed
StartGetDirNoCheck(r) ==
    /\ req[r].pc = "getDir"
    /\ req' = [req EXCEPT ![r] = [Call(@, "getAppDirectory") EXCEPT !.pc = "getCompose"]]
    /\ UNCHANGED <<storeVars, runtimeVars, fsVars, lg, hubVars>>

\* getAppDirectory; if (!directory) createBuild
StartGetDir(r) ==
    /\ req[r].pc = "getDir"
    /\ LET q == Call(req[r], "getAppDirectory")
       IN  req' = [req EXCEPT ![r] =
                      IF ~getAppDirectory(req[r].app) THEN createBuild(q)
                      ELSE [q EXCEPT !.pc = "getCompose"]]
    /\ UNCHANGED <<storeVars, runtimeVars, fsVars, lg, hubVars>>

\* getComposeConfiguration; getComposeImage; image.replace: each absent or
\* empty result goes to createBuild
StartGetCompose(r) ==
    /\ req[r].pc = "getCompose"
    /\ LET file == getComposeConfiguration(req[r].app)
           q1 == Call(req[r], "readComposeConfig")
           image == IF file = <<>> THEN <<>> ELSE getComposeImage(file[1])
           q2 == [Call(q1, "imageFromConfig") EXCEPT !.image = image]
           buildId == Replace(image)
       IN  req' = [req EXCEPT ![r] =
                      IF file = <<>> THEN createBuild(q1)
                      ELSE IF image = <<>> THEN createBuild(q2)
                      ELSE IF buildId = <<>> THEN createBuild(q2)
                      ELSE [q2 EXCEPT !.pc = "findBuild"]]
    /\ UNCHANGED <<storeVars, runtimeVars, fsVars, lg, hubVars>>

\* prisma.build.findUnique({where: {id: buildId}}); if (!build) createBuild
StartFindBuild(r) ==
    /\ req[r].pc = "findBuild"
    /\ LET build == findBuild(Replace(req[r].image))
           q == [Call(req[r], "build.findUnique") EXCEPT !.build = build]
       IN  req' = [req EXCEPT ![r] =
                      IF build = <<>> THEN createBuild(q)
                      ELSE [q EXCEPT !.pc = "imageAvailable"]]
    /\ UNCHANGED <<storeVars, runtimeVars, fsVars, lg, hubVars>>

\* Faulty variant of StartImageAvailable: the answer is not looked at
StartImageAvailableIgnored(r) ==
    /\ req[r].pc = "imageAvailable"
    /\ LET available == isImageAvailable(req[r].image)
           q == [Call(req[r], "imageAvailable") EXCEPT
                    !.available = IF available THEN "yes" ELSE "no"]
       IN  req' = [req EXCEPT ![r] = [q EXCEPT !.pc = "transaction"]]
    /\ UNCHANGED <<storeVars, runtimeVars, fsVars, lg, hubVars>>

\* Faulty variant of StartImageAvailable: the return after createBuild is
\* missing, so the handler goes on
StartImageAvailableNoReturn(r) ==
    /\ req[r].pc = "imageAvailable"
    /\ LET available == isImageAvailable(req[r].image)
           q == [Call(req[r], "imageAvailable") EXCEPT
                    !.available = IF available THEN "yes" ELSE "no"]
       IN  req' = [req EXCEPT ![r] =
                      IF ~available THEN [createBuild(q) EXCEPT !.pc = "transaction"]
                      ELSE [q EXCEPT !.pc = "transaction"]]
    /\ UNCHANGED <<storeVars, runtimeVars, fsVars, lg, hubVars>>

\* isImageAvailable(image); if (!available) createBuild
StartImageAvailable(r) ==
    /\ req[r].pc = "imageAvailable"
    /\ LET available == isImageAvailable(req[r].image)
           q == [Call(req[r], "imageAvailable") EXCEPT
                    !.available = IF available THEN "yes" ELSE "no"]
       IN  req' = [req EXCEPT ![r] =
                      IF ~available THEN createBuild(q)
                      ELSE [q EXCEPT !.pc = "transaction"]]
    /\ UNCHANGED <<storeVars, runtimeVars, fsVars, lg, hubVars>>

\* prisma.$transaction([...findMany({where: {appId: app.id}})])
StartTransaction(r) ==
    /\ req[r].pc = "transaction"
    /\ req' = [req EXCEPT ![r] =
                  [Call(@, "$transaction") EXCEPT
                      !.frags = <<fragments[req[r].app]>>, !.pc = "save"]]
    /\ UNCHANGED <<storeVars, runtimeVars, fsVars, lg, hubVars>>

\* Faulty variant of StartSave: the configuration on disk is kept as it is.
StartSaveKeepsPrevious(r) ==
    /\ req[r].pc = "save"
    /\ dir[req[r].app]
    /\ req' = [req EXCEPT ![r] = [Call(@, "writeComposeConfig") EXCEPT !.pc = "startStack"]]
    /\ UNCHANGED <<storeVars, runtimeVars, fsVars, lg, hubVars>>

\* saveComposeConfiguration(createComposeConfiguration(build, ...), directory)
StartSave(r) ==
    /\ req[r].pc = "save"
    /\ dir[req[r].app]
    /\ LET f == req[r].frags[1]
       IN  compose' = [compose EXCEPT ![req[r].app] =
                          <<createComposeConfiguration(req[r].build[1], f.ports,
                                f.volumes, f.variables, f.networks, f.labels)>>]
    /\ req' = [req EXCEPT ![r] = [Call(@, "writeComposeConfig") EXCEPT !.pc = "startStack"]]
    /\ UNCHANGED <<storeVars, runtimeVars, dir, lg, hubVars>>

\* saveComposeConfiguration rejects: the directory has been removed
StartSaveNoDirectory(r) ==
    /\ req[r].pc = "save"
    /\ ~dir[req[r].app]
    /\ req' = [req EXCEPT ![r] =
                  Respond([Call(@, "writeComposeConfig") EXCEPT !.err = "other"], "thrown")]
    /\ UNCHANGED <<storeVars, runtimeVars, fsVars, lg, hubVars>>

\* startComposeStack resolves (the directory holds the configuration);
\* sendAppEvent(app.id); 200
StartStackOk(r) ==
    /\ req[r].pc = "startStack"
    /\ dir[req[r].app]
    /\ status' = [status EXCEPT ![Tpl(req[r].app)] = "running"]
    /\ sendAppEvent(req[r].app)
    /\ req' = [req EXCEPT ![r] =
                  Respond([Call(@, "startStack") EXCEPT !.nEvent = @ + 1], "200")]
    /\ UNCHANGED <<storeVars, images, fsVars, lg, sink, subs>>

\* Faulty variant of StartStackRuntimeError: publishes the lifecycle event
\* before it answers 500.
StartStackRuntimeErrorPublishes(r) ==
    /\ req[r].pc = "startStack"
    /\ published < MaxPublish
    /\ sendAppEvent(req[r].app)
    /\ req' = [req EXCEPT ![r] =
                  Respond([Call(@, "startStack") EXCEPT !.err = "runtime",
                                                        !.nEvent = @ + 1], "500")]
    /\ UNCHANGED <<storeVars, runtimeVars, fsVars, lg, sink, subs>>

\* startComposeStack rejects with a runtime error ("err" in e): 500
StartStackRuntimeError(r) ==
    /\ req[r].pc = "startStack"
    /\ req' = [req EXCEPT ![r] =
                  Respond([Call(@, "startStack") EXCEPT !.err = "runtime"], "500")]
    /\ UNCHANGED <<storeVars, runtimeVars, fsVars, lg, hubVars>>

\* startComposeStack rejects with any other error: throw e
StartStackOtherError(r) ==
    /\ req[r].pc = "startStack"
    /\ req' = [req EXCEPT ![r] =
                  Respond([Call(@, "startStack") EXCEPT !.err = "other"], "thrown")]
    /\ UNCHANGED <<storeVars, runtimeVars, fsVars, lg, hubVars>>

\* Faulty variant of StopGetStatus: only an exited container is a conflict
StopGetStatusExitedOnly(r) ==
    /\ req[r].pc = "getStatus" /\ req[r].kind = "stop"
    /\ LET st == getContainerStatus(Tpl(req[r].app))
           q  == [Call(req[r], "containerStatus") EXCEPT !.status = st]
       IN  req' = [req EXCEPT ![r] =
                      IF st = "exited" THEN Respond(q, "400")
                      ELSE [q EXCEPT !.pc = "getOrCreateDir"]]
    /\ UNCHANGED <<storeVars, runtimeVars, fsVars, lg, hubVars>>

\* stopApp: getContainerStatus; if (status !== "running" && status !== "restarting") 400
StopGetStatus(r) ==
    /\ req[r].pc = "getStatus" /\ req[r].kind = "stop"
    /\ LET st == getContainerStatus(Tpl(req[r].app))
           q  == [Call(req[r], "containerStatus") EXCEPT !.status = st]
       IN  req' = [req EXCEPT ![r] =
                      IF st # "running" /\ st # "restarting" THEN Respond(q, "400")
                      ELSE [q EXCEPT !.pc = "getOrCreateDir"]]
    /\ UNCHANGED <<storeVars, runtimeVars, fsVars, lg, hubVars>>

\* getOrCreateAppDirectory(app)
StopGetOrCreateDir(r) ==
    /\ req[r].pc = "getOrCreateDir"
    /\ dir' = [dir EXCEPT ![req[r].app] = TRUE]
    /\ req' = [req EXCEPT ![r] =
                  [Call(@, "getOrCreateAppDirectory") EXCEPT !.pc = "stopStack"]]
    /\ UNCHANGED <<storeVars, runtimeVars, compose, lg, hubVars>>

\* Faulty variant of StopStackOk: answers 200 without publishing the event.
StopStackOkNoEvent(r) ==
    /\ req[r].pc = "stopStack"
    /\ dir[req[r].app]
    /\ status' = [status EXCEPT ![Tpl(req[r].app)] =
                     IF @ = "absent" THEN "absent" ELSE "exited"]
    /\ req' = [req EXCEPT ![r] = Respond(Call(@, "stopStack"), "200")]
    /\ UNCHANGED <<storeVars, images, fsVars, lg, hubVars>>

\* stopComposeStack resolves (the directory exists); sendAppEvent(app.id); 200
StopStackOk(r) ==
    /\ req[r].pc = "stopStack"
    /\ dir[req[r].app]
    /\ status' = [status EXCEPT ![Tpl(req[r].app)] =
                     IF @ = "absent" THEN "absent" ELSE "exited"]
    /\ sendAppEvent(req[r].app)
    /\ req' = [req EXCEPT ![r] =
                  Respond([Call(@, "stopStack") EXCEPT !.nEvent = @ + 1], "200")]
    /\ UNCHANGED <<storeVars, images, fsVars, lg, sink, subs>>

\* Faulty variant of StopStackError: the rejection is swallowed and the
\* request goes on as after a successful stop.
StopStackErrorSwallowed(r) ==
    /\ req[r].pc = "stopStack"
    /\ published < MaxPublish
    /\ sendAppEvent(req[r].app)
    /\ req' = [req EXCEPT ![r] =
                  Respond([Call(@, "stopStack") EXCEPT !.err = "runtime",
                                                       !.nEvent = @ + 1], "200")]
    /\ UNCHANGED <<storeVars, runtimeVars, fsVars, lg, sink, subs>>

\* stopComposeStack rejects: nothing catches it
StopStackError(r) ==
    /\ req[r].pc = "stopStack"
    /\ req' = [req EXCEPT ![r] =
                  Respond([Call(@, "stopStack") EXCEPT !.err = "runtime"], "thrown")]
    /\ UNCHANGED <<storeVars, runtimeVars, fsVars, lg, hubVars>>

----------------------------------------------------------------------------
(* DELETE /:appId (deleteApp), next to start and stop requests of the app *)

\* A delete request arrives; force is req.query.force === "true"
BeginDelete(r, a, force) ==
    /\ req[r].pc = "idle"
    /\ \A r2 \in Req : r2 < r => req[r2].pc # "idle"
    /\ req' = [req EXCEPT ![r] = [IdleReq EXCEPT !.kind = "delete", !.app = a,
                                     !.force = force, !.pc = "deleteFindApp"]]
    /\ UNCHANGED <<storeVars, runtimeVars, fsVars, lg, hubVars>>

\* prisma.app.findUnique; if (!app) 404; const force = ...; if (force) {
DeleteFindApp(r) ==
    /\ req[r].pc = "deleteFindApp"
    /\ req' = [req EXCEPT ![r] =
                  IF req[r].app \notin apps
                  THEN Respond(Call(@, "app.findUnique"), "404")
                  ELSE [Call(@, "app.findUnique") EXCEPT
                           !.pc = IF req[r].force THEN "deleteGetOrCreateDir"
                                  ELSE "deleteRecord"]]
    /\ UNCHANGED <<storeVars, runtimeVars, fsVars, lg, hubVars>>

\* const directory = await getOrCreateAppDirectory(app)
DeleteGetOrCreateDir(r) ==
    /\ req[r].pc = "deleteGetOrCreateDir"
    /\ dir' = [dir EXCEPT ![req[r].app] = TRUE]
    /\ req' = [req EXCEPT ![r] =
                  [Call(@, "getOrCreateAppDirectory") EXCEPT !.pc = "deleteStopStack"]]
    /\ UNCHANGED <<storeVars, runtimeVars, compose, lg, hubVars>>

\* await stopComposeStack(directory) resolves
DeleteStopStackOk(r) ==
    /\ req[r].pc = "deleteStopStack"
    /\ dir[req[r].app]
    /\ status' = [status EXCEPT ![Tpl(req[r].app)] =
                     IF @ = "absent" THEN "absent" ELSE "exited"]
    /\ req' = [req EXCEPT ![r] = [Call(@, "stopStack") EXCEPT !.pc = "deleteDirectory"]]
    /\ UNCHANGED <<storeVars, images, fsVars, lg, hubVars>>

\* await stopComposeStack(directory) rejects: nothing catches it
DeleteStopStackError(r) ==
    /\ req[r].pc = "deleteStopStack"
    /\ req' = [req EXCEPT ![r] =
                  Respond([Call(@, "stopStack") EXCEPT !.err = "runtime"], "thrown")]
    /\ UNCHANGED <<storeVars, runtimeVars, fsVars, lg, hubVars>>

\* await deleteAppDirectory(app)
DeleteDirectory(r) ==
    /\ req[r].pc = "deleteDirectory"
    /\ dir' = [dir EXCEPT ![req[r].app] = FALSE]
    /\ compose' = [compose EXCEPT ![req[r].app] = <<>>]
    /\ req' = [req EXCEPT ![r] = [Call(@, "deleteAppDirectory") EXCEPT !.pc = "deleteRecord"]]
    /\ UNCHANGED <<storeVars, runtimeVars, lg, hubVars>>

\* await prisma.app.delete({where: {id}}); 200 (delete rejects when the
\* record is gone)
DeleteRecord(r) ==
    /\ req[r].pc = "deleteRecord"
    /\ IF req[r].app \in apps
       THEN /\ apps' = apps \ {req[r].app}
            /\ names' = [names EXCEPT ![req[r].app] = ""]
            /\ req' = [req EXCEPT ![r] = Respond(Call(@, "app.delete"), "200")]
       ELSE /\ req' = [req EXCEPT ![r] =
                          Respond([Call(@, "app.delete") EXCEPT !.err = "other"], "thrown")]
            /\ UNCHANGED <<apps, names>>
    /\ UNCHANGED <<builds, fragments, runtimeVars, fsVars, lg, hubVars>>

----------------------------------------------------------------------------

(* POST / (createApp) and PUT /:appId (updateApp) *)

AppNames == {"web", "api"}

\* where: {name}: some record has the name; NOT: {id}: some other record
NameInUse(name) == \E a \in apps : names[a] = name
NameInUseByOther(name, id) == \E a \in apps \ {id} : names[a] = name

\* A create request arrives with data.name (the validator has accepted it)
BeginCreate(r, name) ==
    /\ req[r].pc = "idle"
    /\ \A r2 \in Req : r2 < r => req[r2].pc # "idle"
    /\ req' = [req EXCEPT ![r] = [IdleReq EXCEPT !.kind = "create", !.name = name,
                                     !.pc = "createFindName"]]
    /\ UNCHANGED <<storeVars, runtimeVars, fsVars, lg, hubVars>>

\* const exists = await prisma.app.findUnique({where: {name}}); if (exists) 400
CreateFindName(r) ==
    /\ req[r].pc = "createFindName"
    /\ req' = [req EXCEPT ![r] =
                  IF NameInUse(req[r].name)
                  THEN Respond(Call(@, "app.findUnique"), "400")
                  ELSE [Call(@, "app.findUnique") EXCEPT !.pc = "createInsert"]]
    /\ UNCHANGED <<storeVars, runtimeVars, fsVars, lg, hubVars>>

\* const app = await prisma.app.create({data}); 201 (the store rejects a
\* name that is in use by now: name is a unique field)
CreateInsert(r) ==
    /\ req[r].pc = "createInsert"
    /\ NameInUse(req[r].name) \/ apps # AppIds    \* an id is left to give
    /\ IF NameInUse(req[r].name)
       THEN /\ req' = [req EXCEPT ![r] =
                          Respond([Call(@, "app.create") EXCEPT !.err = "other"], "thrown")]
            /\ UNCHANGED <<apps, names>>
       ELSE LET id == CHOOSE a \in AppIds : a \notin apps
            IN  /\ apps' = apps \cup {id}
                /\ names' = [names EXCEPT ![id] = req[r].name]
                /\ req' = [req EXCEPT ![r] =
                              Respond([Call(@, "app.create") EXCEPT !.app = id], "201")]
    /\ UNCHANGED <<builds, fragments, runtimeVars, fsVars, lg, hubVars>>

\* An update request arrives for app a with data.name
BeginUpdate(r, a, name) ==
    /\ req[r].pc = "idle"
    /\ \A r2 \in Req : r2 < r => req[r2].pc # "idle"
    /\ req' = [req EXCEPT ![r] = [IdleReq EXCEPT !.kind = "update", !.app = a,
                                     !.name = name, !.pc = "updateFindApp"]]
    /\ UNCHANGED <<storeVars, runtimeVars, fsVars, lg, hubVars>>

\* const app = await prisma.app.findUnique({where: {id}}); if (!app) 404
UpdateFindApp(r) ==
    /\ req[r].pc = "updateFindApp"
    /\ req' = [req EXCEPT ![r] =
                  IF req[r].app \in apps
                  THEN [Call(@, "app.findUnique") EXCEPT !.pc = "updateFindConflict"]
                  ELSE Respond(Call(@, "app.findUnique"), "404")]
    /\ UNCHANGED <<storeVars, runtimeVars, fsVars, lg, hubVars>>

\* conflicting = findUnique({where: {name, NOT: {id: app.id}}}); if 400
UpdateFindConflict(r) ==
    /\ req[r].pc = "updateFindConflict"
    /\ req' = [req EXCEPT ![r] =
                  IF NameInUseByOther(req[r].name, req[r].app)
                  THEN Respond(Call(@, "app.findConflict"), "400")
                  ELSE [Call(@, "app.findConflict") EXCEPT !.pc = "updateWrite"]]
    /\ UNCHANGED <<storeVars, runtimeVars, fsVars, lg, hubVars>>

\* await prisma.app.update({where: {id}, data}); sendAppEvent(app.id); 200
\* (the store rejects a name another record has by now)
UpdateWrite(r) ==
    /\ req[r].pc = "updateWrite"
    /\ IF NameInUseByOther(req[r].name, req[r].app)
       THEN /\ req' = [req EXCEPT ![r] =
                          Respond([Call(@, "app.update") EXCEPT !.err = "other"], "thrown")]
            /\ UNCHANGED <<names, pending, published>>
       ELSE /\ names' = [names EXCEPT ![req[r].app] = req[r].name]
            /\ sendAppEvent(req[r].app)
            /\ req' = [req EXCEPT ![r] =
                          Respond([Call(@, "app.update") EXCEPT !.nEvent = @ + 1], "200")]
    /\ UNCHANGED <<apps, builds, fragments, runtimeVars, fsVars, lg, sink, subs>>

----------------------------------------------------------------------------

(* The container runtime changes on its own *)

\* what a container does on its own: it crashes and is restarted by the
\* restart policy, it exits, or an exited container is removed
RuntimeTransitions ==
    {<<"running", "restarting">>, <<"restarting", "running">>,
     <<"running", "exited">>, <<"restarting", "exited">>, <<"exited", "absent">>}

RuntimeStatusChange(a, st) ==
    /\ a \in apps
    /\ <<status[Tpl(a)], st>> \in RuntimeTransitions
    /\ status' = [status EXCEPT ![Tpl(a)] = st]
    /\ UNCHANGED <<storeVars, images, fsVars, req, lg, hubVars>>

\* an image is pruned from the runtime
RuntimeImageRemoved(image) ==
    /\ image \in images
    /\ images' = images \ {image}
    /\ UNCHANGED <<storeVars, status, fsVars, req, lg, hubVars>>

----------------------------------------------------------------------------
(* Log stream: listenAppLogs *)

IdleLg ==
    [pc |-> "idle", app |-> <<>>, res |-> "none",
     conn |-> "open",       \* the HTTP connection
     aborted |-> FALSE,     \* abort.signal.aborted
     attempts |-> 0,        \* getContainerLogs invocations
     failures |-> 0,        \* getContainerLogs rejections
     swallowed |-> 0,       \* rejections the catch handler answered with undefined
     lastOk |-> FALSE,      \* the last getContainerLogs call resolved
     emitted |-> <<>>,      \* chunks the runtime handed to the progress callback
     written |-> <<>>]      \* what was written to the response after the headers

\* GET /:appId/logs/realtime arrives
LogsBegin(a) ==
    /\ lg.pc = "idle"
    /\ lg' = [lg EXCEPT !.pc = "findApp", !.app = a]
    /\ UNCHANGED <<storeVars, runtimeVars, fsVars, req, hubVars>>

\* prisma.app.findUnique; if (!app) 404
LogsFindApp ==
    /\ lg.pc = "findApp"
    /\ lg' = IF lg.app \in apps
             THEN [lg EXCEPT !.pc = "getStatus"]
             ELSE [lg EXCEPT !.pc = "rejected", !.res = "404"]
    /\ UNCHANGED <<storeVars, runtimeVars, fsVars, req, hubVars>>

\* getContainerStatus; 400 unless running or restarting; otherwise the headers
\* are flushed, the close listener is registered and promiseRetry makes the
\* first getContainerLogs call
LogsGetStatus ==
    /\ lg.pc = "getStatus"
    /\ LET st == getContainerStatus(Tpl(lg.app))
       IN  lg' = IF st # "running" /\ st # "restarting"
                 THEN [lg EXCEPT !.pc = "rejected", !.res = "400"]
                 ELSE [lg EXCEPT !.pc = "calling", !.res = "stream", !.attempts = 1]
    /\ UNCHANGED <<storeVars, runtimeVars, fsVars, req, hubVars>>

\* res.on("close", () => abort.abort()): the listener exists once the handler
\* has registered it; a connection closed earlier never fires it
CloseListenerRegistered(l) == l.pc \in {"calling", "backoff", "done"}

LogsConnClose ==
    /\ lg.pc # "idle"
    /\ lg.conn = "open"
    /\ lg' = [lg EXCEPT !.conn = "closed",
                        !.aborted = IF CloseListenerRegistered(lg) THEN TRUE ELSE @]
    /\ UNCHANGED <<storeVars, runtimeVars, fsVars, req, hubVars>>

\* (progress) => res.write(`data: ${JSON.stringify(progress)}\n\n`)
OnProgress(l, chunk) == [l EXCEPT !.written = Append(@, [data |-> chunk])]

\* the runtime hands a chunk to the progress callback of the call in flight
AdapterChunk ==
    /\ lg.pc = "calling"
    /\ ~lg.aborted
    /\ Len(lg.emitted) < MaxChunks
    /\ LET chunk == [attempt |-> lg.attempts, n |-> Len(lg.emitted) + 1]
       IN  lg' = OnProgress([lg EXCEPT !.emitted = Append(@, chunk)], chunk)
    /\ UNCHANGED <<storeVars, runtimeVars, fsVars, req, hubVars>>

\* getContainerLogs resolves: the promise of promiseRetry resolves
AdapterResolve ==
    /\ lg.pc = "calling"
    /\ lg' = [lg EXCEPT !.pc = "done", !.lastOk = TRUE]
    /\ UNCHANGED <<storeVars, runtimeVars, fsVars, req, hubVars>>

\* Faulty variant of OnLogsError: no retry, every rejection ends the loop
OnLogsErrorGivesUp(l) == [l EXCEPT !.pc = "done", !.swallowed = @ + 1]

\* Faulty variant of OnLogsError: the signal is not looked at
OnLogsErrorAlwaysRetries(l) == [l EXCEPT !.pc = "backoff"]

\* .catch((error) => (!abort.signal.aborted ? retry(error) : undefined))
\* with {forever: true}: retry(error) always schedules another attempt
OnLogsError(l) ==
    IF ~l.aborted
    THEN [l EXCEPT !.pc = "backoff"]
    ELSE [l EXCEPT !.pc = "done", !.swallowed = @ + 1]

\* getContainerLogs rejects
AdapterReject ==
    /\ lg.pc = "calling"
    /\ lg.aborted \/ lg.attempts < MaxAttempts
    /\ lg' = OnLogsError([lg EXCEPT !.failures = @ + 1, !.lastOk = FALSE])
    /\ UNCHANGED <<storeVars, runtimeVars, fsVars, req, hubVars>>

\* the backoff timer of promise-retry (at most maxTimeout) fires: the
\* function given to promiseRetry runs again
RetryTimer ==
    /\ lg.pc = "backoff"
    /\ lg.attempts < MaxAttempts
    /\ lg' = [lg EXCEPT !.pc = "calling", !.attempts = @ + 1]
    /\ UNCHANGED <<storeVars, runtimeVars, fsVars, req, hubVars>>

----------------------------------------------------------------------------
(* Status stream: listenApp, and the realtime registry it subscribes to *)

IdleSink ==
    [pc |-> "idle", app |-> <<>>, res |-> "none",
     conn |-> "open",               \* the HTTP connection
     closedWhileSubscribed |-> FALSE, \* it closed after the subscription was made
     received |-> <<>>]             \* snapshots written to the response

\* addAppSubscriber(res, app): the id it returns is the slot
addAppSubscriber(s, a) == [subs EXCEPT ![a] = @ \cup {s}]

\* removeAppSubscriber(id, app)
removeAppSubscriber(s, a) == [subs EXCEPT ![a] = @ \ {s}]

\* GET /:appId/realtime arrives (slots are numbered in order of arrival)
ListenBegin(s, a) ==
    /\ sink[s].pc = "idle"
    /\ \A s2 \in Sinks : s2 < s => sink[s2].pc # "idle"
    /\ sink' = [sink EXCEPT ![s] = [@ EXCEPT !.pc = "findApp", !.app = a]]
    /\ UNCHANGED <<storeVars, runtimeVars, fsVars, req, lg, subs, pending, published>>

\* prisma.app.findUnique; if (!app) 404; otherwise flush the headers,
\* const id = addAppSubscriber(res, app), register the close listener and
\* ask for the container status
ListenSubscribe(s) ==
    /\ sink[s].pc = "findApp"
    /\ IF sink[s].app \in apps
       THEN /\ sink' = [sink EXCEPT ![s] = [@ EXCEPT !.pc = "initial", !.res = "stream"]]
            /\ subs' = addAppSubscriber(s, sink[s].app)
       ELSE /\ sink' = [sink EXCEPT ![s] = [@ EXCEPT !.pc = "rejected", !.res = "404"]]
            /\ subs' = subs
    /\ UNCHANGED <<storeVars, runtimeVars, fsVars, req, lg, pending, published>>

\* getContainerStatus answers; res.write of the initial snapshot
ListenInitial(s) ==
    /\ sink[s].pc = "initial"
    /\ sink' = [sink EXCEPT ![s] =
                   [@ EXCEPT !.pc = "listening",
                             !.received = Append(@, [kind |-> "initial", app |-> sink[s].app,
                                 status |-> getContainerStatus(Tpl(sink[s].app))])]]
    /\ UNCHANGED <<storeVars, runtimeVars, fsVars, req, lg, subs, pending, published>>

\* Faulty variant of OnListenClose: the subscription is kept
OnListenCloseKeeps(s) == subs

\* res.on("close", () => { removeAppSubscriber(id, app) })
OnListenClose(s) == removeAppSubscriber(s, sink[s].app)

\* the connection closes; the listener runs if the handler has registered it
ListenConnClose(s) ==
    /\ sink[s].pc # "idle"
    /\ sink[s].conn = "open"
    /\ LET registered == sink[s].pc \in {"initial", "listening"}
       IN  /\ sink' = [sink EXCEPT ![s] =
                          [@ EXCEPT !.conn = "closed",
                                    !.closedWhileSubscribed = registered]]
           /\ subs' = IF registered THEN OnListenClose(s) ELSE subs
    /\ UNCHANGED <<storeVars, runtimeVars, fsVars, req, lg, pending, published>>

\* a start, stop or update request of app a reaches sendAppEvent(app.id)
AppEvent(a) ==
    /\ a \in apps
    /\ published < MaxPublish
    /\ sendAppEvent(a)
    /\ UNCHANGED <<storeVars, runtimeVars, fsVars, req, lg, sink, subs>>

RemoveAt(seq, i) == SubSeq(seq, 1, i - 1) \o SubSeq(seq, i + 1, Len(seq))

\* the hub has fetched the status and the app record of a published app and
\* pushes the snapshot to every subscriber of that app
PublishDeliver(i) ==
    /\ i \in 1..Len(pending)
    /\ LET a == pending[i]
           snapshot == [kind |-> "event", app |-> a, status |-> getContainerStatus(Tpl(a))]
       IN  sink' = [s \in Sinks |->
                       IF s \in subs[a]
                       THEN [sink[s] EXCEPT !.received = Append(@, snapshot)]
                       ELSE sink[s]]
    /\ pending' = RemoveAt(pending, i)
    /\ UNCHANGED <<storeVars, runtimeVars, fsVars, req, lg, subs, published>>

----------------------------------------------------------------------------
(* Initial states *)

A1 == <<"a1">>
A2 == <<"a2">>
B1 == <<"b1">>
B2 == <<"b2">>

NoFragments ==
    [ports |-> <<>>, volumes |-> <<>>, variables |-> <<>>, networks |-> <<>>,
     labels |-> <<>>]

\* the fragments app a1 has in the store: a port and a variable set twice
A1Fragments ==
    [NoFragments EXCEPT
        !.ports = <<[external |-> "8080", internal |-> "80"]>>,
        !.variables = <<[key |-> "K", value |-> "1"], [key |-> "K", value |-> "2"]>>]

A1Build == [id |-> B1, appId |-> A1]
A2Build == [id |-> B2, appId |-> A2]

\* the names of the records: a1 is "web", a2 (when it has a record) is "api"
OneApp == [a \in AppIds |-> IF a = A1 THEN "web" ELSE ""]
TwoApps == [a \in AppIds |-> IF a = A1 THEN "web" ELSE "api"]

\* what the configuration file of a1 may hold when a request arrives: the
\* document of an earlier start, or a file the reuse checks reject
DiskDocuments ==
    {createComposeConfiguration(A1Build, <<>>, <<>>, <<>>, <<>>, <<>>),
     [services |-> [app |-> [container_name |-> Tpl(A1), restart |-> "unless-stopped"]]],
     [services |-> [app |-> [image |-> <<Prefix>>, container_name |-> Tpl(A1),
                             restart |-> "unless-stopped"]]]}

InitIdle ==
    /\ req = [r \in Req |-> IdleReq]
    /\ lg = IdleLg
    /\ sink = [s \in Sinks |-> IdleSink]
    /\ subs = [a \in AppIds |-> {}]
    /\ pending = <<>>
    /\ published = 0

\* start and stop requests on app a1 (a2 has no record)
Init ==
    /\ apps = {A1}
    /\ names = OneApp
    /\ builds \in {{}, {A1Build}}
    /\ fragments = [a \in AppIds |-> IF a = A1 THEN A1Fragments ELSE NoFragments]
    /\ \E st \in {"absent", "running"} :
          status = [n \in ContainerNames |-> IF n = Tpl(A1) THEN st ELSE "absent"]
    /\ images \in {{}, {Tpl(B1)}}
    /\ \E d \in BOOLEAN :
          /\ dir = [a \in AppIds |-> a = A1 /\ d]
          /\ \E file \in {<<>>} \cup {<<doc>> : doc \in DiskDocuments} :
                /\ d \/ file = <<>>
                /\ compose = [a \in AppIds |-> IF a = A1 THEN file ELSE <<>>]
    /\ InitIdle

Next ==
    \/ \E r \in Req, kind \in {"start", "stop"}, a \in AppIds : Begin(r, kind, a)
    \/ \E r \in Req :
          \/ FindApp(r)
          \/ StartGetStatus(r)
          \/ StartGetDir(r)
          \/ StartGetCompose(r)
          \/ StartFindBuild(r)
          \/ StartImageAvailable(r)
          \/ StartTransaction(r)
          \/ StartSave(r)
          \/ StartStackOk(r)
          \/ StartStackRuntimeError(r)
          \/ StartStackOtherError(r)
          \/ StopGetStatus(r)
          \/ StopGetOrCreateDir(r)
          \/ StopStackOk(r)
          \/ StopStackError(r)
    \/ \E a \in AppIds, st \in Statuses : RuntimeStatusChange(a, st)
    \/ \E image \in {Tpl(b) : b \in BuildIds} : RuntimeImageRemoved(image)

Spec == Init /\ [][Next]_vars

\* one log-stream connection
InitLogs ==
    /\ apps = {A1}
    /\ names = OneApp
    /\ builds = {A1Build}
    /\ fragments = [a \in AppIds |-> IF a = A1 THEN A1Fragments ELSE NoFragments]
    /\ status \in [ContainerNames -> Statuses]
    /\ status[Tpl(A2)] = "absent"
    /\ images = {Tpl(B1)}
    /\ dir = [a \in AppIds |-> FALSE]
    /\ compose = [a \in AppIds |-> <<>>]
    /\ InitIdle

NextLogs ==
    \/ \E a \in AppIds : LogsBegin(a)
    \/ LogsFindApp
    \/ LogsGetStatus
    \/ LogsConnClose
    \/ AdapterChunk
    \/ AdapterResolve
    \/ AdapterReject
    \/ RetryTimer

SpecLogs == InitLogs /\ [][NextLogs]_vars

\* Timers fire, and a getContainerLogs call whose signal is aborted settles.
AdapterSettlesAborted == lg.aborted /\ (AdapterResolve \/ AdapterReject)

LiveSpecLogs ==
    /\ InitLogs
    /\ [][NextLogs]_vars
    /\ WF_vars(RetryTimer)
    /\ WF_vars(AdapterSettlesAborted)

\* status-stream connections of two apps
InitHub ==
    /\ apps = {A1, A2}
    /\ names = TwoApps
    /\ builds = {A1Build}
    /\ fragments = [a \in AppIds |-> IF a = A1 THEN A1Fragments ELSE NoFragments]
    /\ status = [n \in ContainerNames |-> IF n = Tpl(A1) THEN "running" ELSE "exited"]
    /\ images = {Tpl(B1)}
    /\ dir = [a \in AppIds |-> FALSE]
    /\ compose = [a \in AppIds |-> <<>>]
    /\ InitIdle

NextHub ==
    \/ \E s \in Sinks, a \in AppIds : ListenBegin(s, a)
    \/ \E s \in Sinks : ListenSubscribe(s)
    \/ \E s \in Sinks : ListenInitial(s)
    \/ \E s \in Sinks : ListenConnClose(s)
    \/ \E a \in AppIds : AppEvent(a)
    \/ \E i \in 1..MaxPublish : PublishDeliver(i)

SpecHub == InitHub /\ [][NextHub]_vars

----------------------------------------------------------------------------
(* The compose generator on the start path: one Start of a1 or a2 whose    *)
(* reuse checks pass, over every bounded choice of a1's fragments          *)

MaxFrag == 3    \* longest variables / labels list drawn

\* the lists of at most n key/value fragments over the given keys and values
KeyValueLists(keys, values, n) ==
    UNION {[1..k -> [key : keys, value : values]] : k \in 0..n}

\* the fragment lists an app may have in the store: every combination of an
\* empty and a one-element list, and every bounded variables or labels list
FragmentInputs ==
    [ports : {<<>>, <<[external |-> "8080", internal |-> "80"]>>},
     volumes : {<<>>, <<[host |-> "/srv/data", internal |-> "/data"]>>},
     variables : {<<>>, <<[key |-> "K", value |-> "1"]>>},
     networks : {<<>>, <<[name |-> "front", external |-> TRUE]>>},
     labels : {<<>>, <<[key |-> "K", value |-> "1"]>>}]
    \cup {[NoFragments EXCEPT !.variables = l] :
              l \in KeyValueLists({"K", "L"}, {"1", "2"}, MaxFrag)}
    \cup {[NoFragments EXCEPT !.labels = l] :
              l \in KeyValueLists({"K", "L"}, {"1", "2"}, MaxFrag)}

\* the fragments of a2: two networks
A2Fragments ==
    [NoFragments EXCEPT
        !.networks = <<[name |-> "front", external |-> TRUE],
                       [name |-> "back", external |-> FALSE]>>]

\* the build each app's configuration on disk was generated from
BuildOf(a) == IF a = A1 THEN A1Build ELSE A2Build

\* both apps have a build, its image and the configuration of an earlier
\* start that had no fragments; no container exists
InitCompose ==
    /\ apps = {A1, A2}
    /\ names = TwoApps
    /\ builds = {A1Build, A2Build}
    /\ \E f \in FragmentInputs :
          fragments = [a \in AppIds |-> IF a = A1 THEN f ELSE A2Fragments]
    /\ status = [n \in ContainerNames |-> "absent"]
    /\ images = {Tpl(B1), Tpl(B2)}
    /\ dir = [a \in AppIds |-> TRUE]
    /\ compose = [a \in AppIds |->
                     <<createComposeConfiguration(BuildOf(a), <<>>, <<>>, <<>>,
                                                  <<>>, <<>>)>>]
    /\ InitIdle

NextCompose ==
    \/ \E a \in AppIds : Begin(1, "start", a)
    \/ FindApp(1)
    \/ StartGetStatus(1)
    \/ StartGetDir(1)
    \/ StartGetCompose(1)
    \/ StartFindBuild(1)
    \/ StartImageAvailable(1)
    \/ StartTransaction(1)
    \/ StartSave(1)
    \/ StartStackOk(1)
    \/ StartStackRuntimeError(1)
    \/ StartStackOtherError(1)

SpecCompose == InitCompose /\ [][NextCompose]_vars

----------------------------------------------------------------------------

\* one delete request and start and stop requests on app a1, which has a
\* build, its image and the configuration of an earlier start
InitDelete ==
    /\ apps = {A1}
    /\ names = OneApp
    /\ builds = {A1Build}
    /\ fragments = [a \in AppIds |-> IF a = A1 THEN A1Fragments ELSE NoFragments]
    /\ \E st \in {"absent", "running"} :
          status = [n \in ContainerNames |-> IF n = Tpl(A1) THEN st ELSE "absent"]
    /\ images = {Tpl(B1)}
    /\ dir = [a \in AppIds |-> a = A1]
    /\ compose = [a \in AppIds |->
                     IF a = A1
                     THEN <<createComposeConfiguration(A1Build, <<>>, <<>>, <<>>,
                                                       <<>>, <<>>)>>
                     ELSE <<>>]
    /\ InitIdle

NextDelete ==
    \/ \E r \in Req, force \in BOOLEAN :
          /\ \A r2 \in Req : req[r2].kind # "delete"   \* one delete request
          /\ BeginDelete(r, A1, force)
    \/ \E r \in Req, kind \in {"start", "stop"} : Begin(r, kind, A1)
    \/ \E r \in Req :
          \/ DeleteFindApp(r)
          \/ DeleteGetOrCreateDir(r)
          \/ DeleteStopStackOk(r)
          \/ DeleteStopStackError(r)
          \/ DeleteDirectory(r)
          \/ DeleteRecord(r)
          \/ FindApp(r)
          \/ StartGetStatus(r)
          \/ StartGetDir(r)
          \/ StartGetCompose(r)
          \/ StartFindBuild(r)
          \/ StartImageAvailable(r)
          \/ StartTransaction(r)
          \/ StartSave(r)
          \/ StartSaveNoDirectory(r)
          \/ StartStackOk(r)
          \/ StartStackRuntimeError(r)
          \/ StopGetStatus(r)
          \/ StopGetOrCreateDir(r)
          \/ StopStackOk(r)
          \/ StopStackError(r)

SpecDelete == InitDelete /\ [][NextDelete]_vars

----------------------------------------------------------------------------

\* create and update requests; a1 ("web") has a record, a2 has none yet
InitNames ==
    /\ apps = {A1}
    /\ names = OneApp
    /\ builds = {}
    /\ fragments = [a \in AppIds |-> NoFragments]
    /\ status = [n \in ContainerNames |-> "absent"]
    /\ images = {}
    /\ dir = [a \in AppIds |-> FALSE]
    /\ compose = [a \in AppIds |-> <<>>]
    /\ InitIdle

NextNames ==
    \/ \E r \in Req, name \in AppNames : BeginCreate(r, name)
    \/ \E r \in Req, a \in AppIds, name \in AppNames : BeginUpdate(r, a, name)
    \/ \E r \in Req :
          \/ CreateFindName(r)
          \/ CreateInsert(r)
          \/ UpdateFindApp(r)
          \/ UpdateFindConflict(r)
          \/ UpdateWrite(r)

SpecNames == InitNames /\ [][NextNames]_vars

----------------------------------------------------------------------------

(* Properties of start and stop requests (checked under Spec) *)

InCalls(q, op) == \E i \in 1..Len(q.calls) : q.calls[i] = op
Count(q, op) == Cardinality({i \in 1..Len(q.calls) : q.calls[i] = op})
LastCall(q) == q.calls[Len(q.calls)]

\* the runtime adapter operations a request has called
AdapterCalls(q) == {q.calls[i] : i \in 1..Len(q.calls)} \cap RuntimeAdapterOps

\* C1: a Start request that reads the status `running` is answered 400 and
\* does nothing else: after the app lookup and the status query it calls no
\* collaborator (no configuration write, no startStack), does not invoke
\* createBuild and publishes no event.
C1_StartWhileRunningRejected ==
    \A r \in Req :
        (req[r].kind = "start" /\ req[r].status = "running") =>
            /\ req[r].pc = "done"
            /\ req[r].res = "400"
            /\ req[r].calls = <<"app.findUnique", "containerStatus">>
            /\ req[r].nBuild = 0
            /\ req[r].nEvent = 0

C1_Witness ==
    \E r \in Req :
        req[r].kind = "start" /\ req[r].status = "running" /\ req[r].res = "400"

\* C2: a Stop request that reads a status other than `running` and
\* `restarting` is answered 400 and does nothing else: it calls neither
\* getOrCreateAppDirectory nor stopStack and publishes no event.
C2_StopWhileStoppedRejected ==
    \A r \in Req :
        (req[r].kind = "stop" /\ req[r].status \in {"exited", "absent"}) =>
            /\ req[r].pc = "done"
            /\ req[r].res = "400"
            /\ req[r].calls = <<"app.findUnique", "containerStatus">>
            /\ req[r].nEvent = 0

C2_Witness ==
    \E r1, r2 \in Req :
        /\ req[r1].kind = "stop" /\ req[r1].status = "exited" /\ req[r1].res = "400"
        /\ req[r2].kind = "stop" /\ req[r2].status = "absent" /\ req[r2].res = "400"

\* the configuration now in the directory of app a references an image that
\* the runtime has
ConfigImageAvailable(a) ==
    LET file == getComposeConfiguration(a)
    IN  /\ file # <<>>
        /\ getComposeImage(file[1]) # <<>>
        /\ isImageAvailable(getComposeImage(file[1]))

IssuesStartStack(r) == req[r].pc = "startStack" /\ req'[r].pc # "startStack"

\* C3 as stated: whenever a Start request issues startStack, the
\* configuration in the app's directory references an image that passes
\* imageAvailable at that moment, in every interleaving with other requests
\* and with changes of the runtime.
C3_StartStackImageAvailableNow ==
    [][\A r \in Req : IssuesStartStack(r) => ConfigImageAvailable(req[r].app)]_vars

\* C3 amended: a Start request that reaches startStack has read, in that
\* request, a configuration whose image passed imageAvailable when the
\* request asked; a request whose image did not pass is handed to createBuild
\* and never reaches startStack (the image may have left the runtime since).
C3_StartStackImageWasAvailable ==
    \A r \in Req :
        /\ (req[r].pc = "startStack" \/ InCalls(req[r], "startStack")) =>
              /\ req[r].image # <<>>
              /\ req[r].available = "yes"
              /\ req[r].nBuild = 0
        /\ req[r].available = "no" =>
              /\ req[r].pc = "done"
              /\ req[r].res = "createBuild"
              /\ LastCall(req[r]) = "imageAvailable"

C3_Witness ==
    \E r1, r2 \in Req :
        /\ InCalls(req[r1], "startStack") /\ req[r1].available = "yes"
        /\ req[r2].available = "no" /\ req[r2].res = "createBuild"

\* the reuse check a Start request is about to evaluate fails
ReuseCheckFails(q) ==
    \/ q.pc = "getDir" /\ ~dir[q.app]
    \/ q.pc = "getCompose" /\ (~dir[q.app] \/ compose[q.app] = <<>>)
    \/ q.pc = "getCompose" /\ dir[q.app] /\ compose[q.app] # <<>>
          /\ "image" \notin DOMAIN compose[q.app][1].services.app
    \/ q.pc = "findBuild" /\ ~\E b \in builds : Tpl(b.id) = q.image
    \/ q.pc = "imageAvailable" /\ q.image \notin images

ReuseCallsNeeded ==
    <<"app.findUnique", "containerStatus", "getAppDirectory", "readComposeConfig",
      "imageFromConfig", "build.findUnique", "imageAvailable">>

\* C4: when a reuse check of a Start request fails, that step hands the
\* request to createBuild, once, and ends it: no further check, no
\* configuration write, no startStack, no event; and a request is at
\* startStack only after all the checks were made and passed.
C4_FailedCheckRoutesToBuild ==
    /\ [][\A r \in Req :
            (req'[r] # req[r] /\ ReuseCheckFails(req[r])) =>
                /\ req'[r].pc = "done"
                /\ req'[r].res = "createBuild"
                /\ req'[r].nBuild = 1]_vars
    /\ [](\A r \in Req :
            /\ req[r].nBuild <= 1
            /\ req[r].res = "createBuild" <=> req[r].nBuild = 1
            /\ req[r].res = "createBuild" =>
                  /\ req[r].pc = "done"
                  /\ ~InCalls(req[r], "$transaction")
                  /\ ~InCalls(req[r], "writeComposeConfig")
                  /\ ~InCalls(req[r], "startStack")
                  /\ req[r].nEvent = 0
            /\ (req[r].pc = "startStack" \/ InCalls(req[r], "startStack")) =>
                  /\ SubSeq(req[r].calls, 1, Len(ReuseCallsNeeded)) = ReuseCallsNeeded
                  /\ req[r].image # <<>>
                  /\ req[r].build # <<>>
                  /\ req[r].available = "yes"
                  /\ req[r].nBuild = 0)

C4_Witness ==
    \E r1, r2 \in Req :
        /\ req[r1].res = "createBuild" /\ LastCall(req[r1]) = "imageAvailable"
        /\ req[r1].nBuild = 1
        /\ req[r2].res = "200" /\ InCalls(req[r2], "startStack")

\* C5 as stated: a Start request handed to createBuild has called no
\* runtime adapter operation other than readComposeConfig, imageFromConfig
\* and imageAvailable.
C5_OnlyPresenceChecks ==
    \A r \in Req :
        req[r].res = "createBuild" => AdapterCalls(req[r]) \subseteq PresenceChecks

\* C5 amended: a Start request that passes the status check and finds no
\* directory or no usable configuration is handed to createBuild, and over
\* the whole request startApp calls no runtime adapter operation other than
\* the one containerStatus query of the status check and the presence checks.
C5_OnlyStatusAndPresenceChecks ==
    \A r \in Req :
        /\ (/\ req[r].kind = "start" /\ req[r].pc = "done"
            /\ LastCall(req[r]) \in {"getAppDirectory", "readComposeConfig",
                                     "imageFromConfig", "build.findUnique"})
              => req[r].res = "createBuild"
        /\ req[r].res = "createBuild" =>
              /\ AdapterCalls(req[r]) \subseteq PresenceChecks \cup {"containerStatus"}
              /\ Count(req[r], "containerStatus") = 1
              /\ req[r].calls[2] = "containerStatus"

C5_Witness ==
    \E r \in Req :
        /\ req[r].res = "createBuild"
        /\ req[r].calls = <<"app.findUnique", "containerStatus", "getAppDirectory">>

\* a request is between its status check and its runtime call
InSequence(q) ==
    \/ q.kind = "start" /\ q.pc \in {"getDir", "getCompose", "findBuild",
                                     "imageAvailable", "transaction", "save", "startStack"}
    \/ q.kind = "stop" /\ q.pc \in {"getOrCreateDir", "stopStack"}

\* C6: no two Start/Stop requests of the same app are at the same time
\* between their status check and their runtime call.
C6_MutualExclusion ==
    \A r1, r2 \in Req :
        (r1 # r2 /\ req[r1].app = req[r2].app) =>
            ~(InSequence(req[r1]) /\ InSequence(req[r2]))

----------------------------------------------------------------------------
(* Properties of the log stream (checked under SpecLogs and LiveSpecLogs) *)

\* C7: when the loop has ended by a getContainerLogs call that resolved,
\* after N rejections, the adapter was called exactly N + 1 times, and what
\* was written to the subscriber is exactly the chunks the runtime emitted,
\* in order (no rejection is written); without cancellation the loop ends in
\* no other way, and the count stays N + 1 in every state after the end.
C7_RetriesThenDelivers ==
    /\ (lg.pc = "done" /\ ~lg.aborted) => lg.lastOk
    /\ (lg.pc = "done" /\ lg.lastOk) =>
          /\ lg.attempts = lg.failures + 1
          /\ lg.swallowed = 0
    /\ lg.written = [i \in 1..Len(lg.emitted) |-> [data |-> lg.emitted[i]]]

C7_Witness ==
    /\ lg.pc = "done" /\ ~lg.aborted /\ lg.lastOk
    /\ lg.failures = 2 /\ lg.attempts = 3
    /\ \E i \in 1..Len(lg.written) : lg.written[i].data.attempt = 3

\* C8: once the abort signal has fired, getContainerLogs is not called again.
C8_NoCallAfterAbort ==
    [][lg.aborted => lg'.attempts = lg.attempts]_vars

\* C9: once the abort signal has fired the loop ends (timers fire, and a
\* call with an aborted signal settles); a rejection seen after the signal
\* fired is answered with undefined and ends the loop; a rejection seen
\* before it always schedules another attempt.
C9_TerminatesOnCancel ==
    /\ lg.aborted ~> lg.pc = "done"
    /\ [][lg'.failures = lg.failures + 1 =>
            IF lg.aborted
            THEN lg'.pc = "done" /\ lg'.swallowed = lg.swallowed + 1
            ELSE lg'.pc = "backoff" /\ lg'.swallowed = lg.swallowed]_vars

C9_Witness ==
    lg.pc = "done" /\ lg.aborted /\ lg.swallowed = 1 /\ lg.failures = 2

----------------------------------------------------------------------------
(* Properties of the event hub (checked under SpecHub) *)

\* the connection in slot s has subscribed to app a and has not closed since
Subscribed(s, a) ==
    /\ sink[s].app = a
    /\ sink[s].pc \in {"initial", "listening"}
    /\ ~sink[s].closedWhileSubscribed

Events(s) == {i \in 1..Len(sink[s].received) : sink[s].received[i].kind = "event"}

\* C10: the push of a published app id writes exactly one event snapshot of
\* that app to every connection subscribed to it at that moment, and nothing
\* to connections of other apps, to connections not subscribed yet and to
\* connections that closed after they subscribed.
C10_PublishDelivery ==
    [][Len(pending') < Len(pending) =>
          \E i \in 1..Len(pending) :
              /\ pending' = RemoveAt(pending, i)
              /\ \A s \in Sinks :
                    IF Subscribed(s, pending[i])
                    THEN /\ Len(sink'[s].received) = Len(sink[s].received) + 1
                         /\ SubSeq(sink'[s].received, 1, Len(sink[s].received))
                               = sink[s].received
                         /\ sink'[s].received[Len(sink'[s].received)].kind = "event"
                         /\ sink'[s].received[Len(sink'[s].received)].app = pending[i]
                    ELSE sink'[s].received = sink[s].received]_vars

C10_Witness ==
    /\ published = MaxPublish /\ pending = <<>>
    /\ \E s1, s2 \in Sinks :
          /\ Cardinality(Events(s1)) = 1
          /\ sink[s2].app = sink[s1].app
          /\ sink[s2].closedWhileSubscribed
          /\ Events(s2) = {}

\* C11: on a status stream the first message the connection receives is the
\* initial snapshot and every later message is the snapshot of a lifecycle
\* event: no event snapshot reaches the connection before the initial one.
C11_InitialSnapshotFirst ==
    \A s \in Sinks :
        \A i \in 1..Len(sink[s].received) :
            (sink[s].received[i].kind = "initial") <=> (i = 1)

\* C12: a Start whose startStack call rejects with a runtime error has called
\* startStack exactly once, as its last call, is answered 500 and has
\* published no lifecycle event; the step in which the call fails leaves the
\* runtime's status map and the hub's publications as they were.
C12_StartRuntimeErrorReported ==
    /\ [](\A r \in Req :
            (req[r].kind = "start" /\ req[r].err = "runtime") =>
                /\ req[r].pc = "done" /\ req[r].res = "500"
                /\ Count(req[r], "startStack") = 1
                /\ LastCall(req[r]) = "startStack"
                /\ req[r].nEvent = 0)
    /\ [][\A r \in Req :
            (req[r].err = "none" /\ req'[r].err = "runtime"
                                 /\ req'[r].kind = "start") =>
                /\ status' = status
                /\ pending' = pending /\ published' = published]_vars

C12_Witness ==
    \E r \in Req :
        /\ req[r].kind = "start" /\ req[r].err = "runtime" /\ req[r].res = "500"
        /\ getContainerStatus(Tpl(req[r].app)) # "running"

\* C13: a Stop whose stopStack call rejects ends with a failure outcome (the
\* rejection leaves the handler towards the boundary layer; no success is
\* answered and the request is not left pending), has called stopStack
\* exactly once, as its last call, and has published no lifecycle event; the
\* failing step publishes nothing.
C13_StopRuntimeErrorReported ==
    /\ [](\A r \in Req :
            (req[r].kind = "stop" /\ req[r].err # "none") =>
                /\ req[r].pc = "done" /\ req[r].res = "thrown"
                /\ Count(req[r], "stopStack") = 1
                /\ LastCall(req[r]) = "stopStack"
                /\ req[r].nEvent = 0)
    /\ [][\A r \in Req :
            (req[r].err = "none" /\ req'[r].err # "none"
                                 /\ req'[r].kind = "stop") =>
                /\ pending' = pending /\ published' = published]_vars

C13_Witness ==
    \E r \in Req :
        /\ req[r].kind = "stop" /\ req[r].err = "runtime" /\ req[r].res = "thrown"
        /\ req[r].status \in {"running", "restarting"}

\* C14: a Stop of an existing app whose status is read as running or
\* restarting and whose stopStack call succeeds ensures the app directory
\* exists, calls stopStack exactly once, publishes exactly one lifecycle event
\* (in the step in which stopStack returns, not before) and answers success;
\* no other Stop answers success.
C14_StopSequence ==
    /\ [](\A r \in Req : req[r].kind = "stop" =>
            /\ (req[r].pc = "done" /\ req[r].err = "none"
                    /\ req[r].status \in {"running", "restarting"})
                  => req[r].res = "200"
            /\ req[r].res = "200" =>
                  /\ req[r].status \in {"running", "restarting"}
                  /\ req[r].calls = <<"app.findUnique", "containerStatus",
                                      "getOrCreateAppDirectory", "stopStack">>
                  /\ req[r].nEvent = 1
            /\ req[r].res # "200" => req[r].nEvent = 0
            /\ req[r].pc = "stopStack" => dir[req[r].app])
    /\ [][\A r \in Req :
            (req'[r].kind = "stop" /\ req[r].res = "none" /\ req'[r].res = "200") =>
                /\ req[r].pc = "stopStack"
                /\ published' = published + 1
                /\ pending' = Append(pending, req[r].app)]_vars

C14_Witness ==
    \E r \in Req :
        /\ req[r].kind = "stop" /\ req[r].res = "200"
        /\ req[r].status = "restarting"
        /\ req[r].nEvent = 1 /\ dir[req[r].app]

----------------------------------------------------------------------------
(* Properties of the generated configuration (checked under SpecCompose) *)

\* request r has written the configuration of its app
Written(r) == InCalls(req[r], "writeComposeConfig") /\ req[r].err # "other"

\* the document request r wrote, and the store's fragments of its app
WrittenDocument(r) == compose[req[r].app][1]
StoredFragments(r) == fragments[req[r].app]

\* C15: for every combination of empty and non-empty fragment lists the
\* written document has the service key ports exactly when there are ports,
\* environment exactly when there are variables, labels exactly when there
\* are labels, volumes exactly when there are volumes, the service key
\* networks and the top-level key networks exactly when there are networks,
\* and always image, container_name and restart (and no other key).
C15_SectionsIffNonEmpty ==
    \A r \in Req : Written(r) =>
        LET doc == WrittenDocument(r)
            svc == doc.services.app
            f == StoredFragments(r)
        IN  /\ {"image", "container_name", "restart"} \subseteq DOMAIN svc
            /\ ("ports" \in DOMAIN svc) <=> (f.ports # <<>>)
            /\ ("environment" \in DOMAIN svc) <=> (f.variables # <<>>)
            /\ ("labels" \in DOMAIN svc) <=> (f.labels # <<>>)
            /\ ("volumes" \in DOMAIN svc) <=> (f.volumes # <<>>)
            /\ ("networks" \in DOMAIN svc) <=> (f.networks # <<>>)
            /\ ("networks" \in DOMAIN doc) <=> (f.networks # <<>>)
            /\ DOMAIN svc \subseteq {"image", "container_name", "restart", "ports",
                                     "environment", "labels", "volumes", "networks"}
            /\ DOMAIN doc \subseteq {"services", "networks"}

C15_Witness ==
    \E r \in Req :
        /\ Written(r)
        /\ StoredFragments(r).ports # <<>> /\ StoredFragments(r).labels # <<>>
        /\ StoredFragments(r).volumes = <<>> /\ StoredFragments(r).variables = <<>>
        /\ StoredFragments(r).networks = <<>>
        /\ DOMAIN WrittenDocument(r).services.app
              = {"image", "container_name", "restart", "ports", "labels"}

\* the keys of a key/value list and the index of a key's last occurrence
Keys(list) == {list[i].key : i \in 1..Len(list)}
LastIndex(list, k) ==
    CHOOSE i \in 1..Len(list) :
        /\ list[i].key = k
        /\ \A j \in 1..Len(list) : list[j].key = k => j <= i

\* the reorderings of a list (as index permutations p: the new list has
\* list[p[i]] at place i) in which the final occurrence of every key still
\* comes last among that key's occurrences
FinalOccurrencesKept(list) ==
    {p \in [1..Len(list) -> 1..Len(list)] :
        /\ \A i, j \in 1..Len(list) : p[i] = p[j] => i = j
        /\ \A i, j \in 1..Len(list) :
              (list[p[j]].key = list[p[i]].key
                  /\ p[i] = LastIndex(list, list[p[i]].key)) => j <= i}
Reordered(list, p) == [i \in 1..Len(list) |-> list[p[i]]]

\* mapping m has exactly the distinct keys of the list, each with the value
\* of its last occurrence, and so has the mapping of every such reordering
LastWins(m, list) ==
    /\ DOMAIN m = Keys(list)
    /\ \A k \in Keys(list) : m[k] = list[LastIndex(list, k)].value
    /\ \A p \in FinalOccurrencesKept(list) :
          ReduceKeyValue(Reordered(list, p)) = m

\* C16: the environment mapping of the written document has exactly the
\* distinct keys of the variables list, each with the value of its last
\* occurrence, and a reordering of the list that keeps every key's final
\* occurrence last among that key's occurrences gives the same mapping;
\* likewise the labels mapping for the labels list.
C16_LastOccurrenceWins ==
    \A r \in Req : Written(r) =>
        LET svc == WrittenDocument(r).services.app
            f == StoredFragments(r)
        IN  /\ f.variables # <<>> => LastWins(svc.environment, f.variables)
            /\ f.labels # <<>> => LastWins(svc.labels, f.labels)

C16_Witness ==
    \E r \in Req :
        /\ Written(r)
        /\ StoredFragments(r).variables
              = <<[key |-> "K", value |-> "1"], [key |-> "L", value |-> "1"],
                  [key |-> "K", value |-> "2"]>>
        /\ WrittenDocument(r).services.app.environment = [K |-> "2", L |-> "1"]
        /\ Cardinality(FinalOccurrencesKept(StoredFragments(r).variables)) = 3

----------------------------------------------------------------------------
(* The order of a Start that reuses its build (checked under Spec) *)

IsPrefix(s, t) == Len(s) <= Len(t) /\ SubSeq(t, 1, Len(s)) = s

\* the calls of a Start whose reuse checks all pass, in order
StartSteps == ReuseCallsNeeded \o <<"$transaction", "writeComposeConfig", "startStack">>

\* C17: a Start that passes the reuse checks loads the fragments in one
\* transaction, writes the regenerated configuration, calls startStack,
\* publishes the lifecycle event and answers success, in this order and each
\* at most once: startStack is not called before the configuration is
\* written, the event is published only in the step in which startStack
\* succeeded, and the document written is the one generated from the
\* fragments in the store, whatever the directory held before.
C17_StartOrder ==
    /\ [](\A r \in Req : req[r].kind = "start" =>
            /\ InCalls(req[r], "$transaction") => IsPrefix(req[r].calls, StartSteps)
            /\ req[r].res = "200" => req[r].calls = StartSteps
            /\ req[r].nEvent = (IF req[r].res = "200" THEN 1 ELSE 0)
            /\ req[r].nEvent = 1 => req[r].err = "none")
    /\ [][\A r \in Req : req'[r].kind = "start" =>
            /\ (~InCalls(req[r], "writeComposeConfig")
                    /\ InCalls(req'[r], "writeComposeConfig")) =>
                  LET f == fragments[req[r].app]
                      b == CHOOSE b \in builds : b.appId = req[r].app
                  IN  /\ LastCall(req[r]) = "$transaction"
                      /\ compose'[req[r].app] =
                            <<createComposeConfiguration(b, f.ports, f.volumes,
                                  f.variables, f.networks, f.labels)>>
            /\ (req[r].res = "none" /\ req'[r].res = "200") =>
                  /\ LastCall(req[r]) = "writeComposeConfig"
                  /\ LastCall(req'[r]) = "startStack"
                  /\ published' = published + 1
                  /\ pending' = Append(pending, req[r].app)]_vars

\* a Start has succeeded and the directory, which held a configuration
\* without sections, holds the one with the store's port and variable
C17_Witness ==
    \E r \in Req :
        /\ req[r].kind = "start" /\ req[r].res = "200" /\ req[r].nEvent = 1
        /\ compose[req[r].app][1].services.app.ports = <<<<"8080", ":", "80">>>>
        /\ compose[req[r].app][1].services.app.environment = [K |-> "2"]

\* C19: the configuration a Start of app A writes into A's directory names
\* the container dockerizalo-<A.id>: the build the request found from the
\* image reference on disk is a build of A (startApp compares no appId).
C19_ContainerNamedAfterApp ==
    \A r \in Req :
        /\ req[r].build # <<>> => req[r].build[1].appId = req[r].app
        /\ Written(r) =>
              /\ WrittenDocument(r).services.app.container_name = Tpl(req[r].app)
              /\ WrittenDocument(r).services.app.image = Tpl(req[r].build[1].id)

C19_Witness ==
    \E r \in Req :
        /\ Written(r) /\ req[r].app = A2 /\ req[r].build = <<A2Build>>
        /\ WrittenDocument(r).services.app.container_name = <<Prefix, "a2">>
        /\ StoredFragments(r).networks # <<>>

----------------------------------------------------------------------------
(* Properties of delete requests (checked under SpecDelete) *)

\* C18: after a delete with force has answered 200 the app has no record, no
\* directory and no running stack, whatever Start or Stop of the app is
\* interleaved, and the request stopped the stack and removed the directory
\* before it deleted the record; a delete without force that answered 200
\* has deleted the record and made no runtime or filesystem call.
C18_ForceDeleteLeavesNothing ==
    \A r \in Req : (req[r].kind = "delete" /\ req[r].res = "200") =>
        /\ req[r].app \notin apps
        /\ req[r].force =>
              /\ req[r].calls = <<"app.findUnique", "getOrCreateAppDirectory",
                                  "stopStack", "deleteAppDirectory", "app.delete">>
              /\ ~dir[req[r].app]
              /\ status[Tpl(req[r].app)] \notin {"running", "restarting"}
        /\ ~req[r].force => req[r].calls = <<"app.findUnique", "app.delete">>

----------------------------------------------------------------------------
(* Properties of create and update requests (checked under SpecNames) *)

\* C20: in every interleaving of create and update requests no two app
\* records have the same name, a create ends either with the record created
\* (201) or rejected with 400, and an update ends either accepted (200) or
\* rejected with 400 (or 404 for an unknown app); a rejected request changes
\* nothing.
C20_UniqueNames ==
    /\ \A a, b \in apps : names[a] = names[b] => a = b
    /\ \A r \in Req :
          /\ (req[r].kind = "create" /\ req[r].pc = "done")
                => req[r].res \in {"201", "400"}
          /\ (req[r].kind = "update" /\ req[r].pc = "done")
                => req[r].res \in {"200", "400", "404"}

====
